---- MODULE Spec2Model ----
(***************************************************************************)
(* Chat session store of @n8n/chat (ChatPlugin.install): the in-memory     *)
(* map of sessions, the conversation registry, the two session pointers,   *)
(* the waiting flag, the two localStorage keys and the backend calls that  *)
(* are awaited by sendMessage and switchSession.                           *)
(*                                                                         *)
(* The runtime is a single-threaded event loop.  One action of the model   *)
(* is one synchronous run of store code: from the call of an operation (or *)
(* from the delivery of a backend reply) up to the next await of a backend *)
(* call or the end of the operation.  The part of loadConversation behind  *)
(* await switchSession(...) is a run of its own: it is queued when         *)
(* switchSession returns, and code of the caller or another continuation   *)
(* can run before it.                                                      *)
(*                                                                         *)
(* Time is the value of new Date() in ticks, TicksPerMinute of them to the *)
(* minute: now holds the time read last, and a later read yields that time *)
(* or a later one.                                                         *)
(* Session ids are positive integers; uuidv4() is modelled by a counter    *)
(* of ids never handed out before.  A message keeps the fields the store   *)
(* logic reads (sender, text); its id, createdAt and files take no part in *)
(* any decision of the store.                                              *)
(***************************************************************************)
EXTENDS Integers, Sequences, FiniteSets, TLC

VARIABLES
    options,             \* the ChatOptions given to install (never changes)
    conversations,       \* conversations.value : sequence of ConversationMeta
    sessions,            \* sessions.value : Map<string, ChatMessage[]>
    currentSessionId,    \* currentSessionId.value, NULL for null
    activeSessionId,     \* activeSessionId.value, NULL for null
    waitingForResponse,  \* waitingForResponse.value
    lsConversations,     \* localStorage item under localStorageSessionConversationKeys
    lsSessionId,         \* localStorage item under localStorageSessionIdKey
    calls,               \* what the suspended operations await
    now,                 \* the time new Date() gave when read last
    nextUuid,            \* source of uuidv4() session ids
    lastEvent,           \* what the last run of store code was and how it ended
    invoked,             \* how many store operations the UI has called so far
    manager,             \* License.manager: NULL, or the number of the LicenseManager
    isShuttingDown,      \* License.isShuttingDown
    managersMade,        \* LicenseManager objects constructed so far
    pending,             \* promises awaited by suspended License operations
    licEvent,            \* what the last run of License code was and did
    licInvoked,          \* how many License operations have been called so far
    shutdownCalled       \* whether shutdown() has been called

vars == <<options, conversations, sessions, currentSessionId, activeSessionId,
          waitingForResponse, lsConversations, lsSessionId, calls, now,
          nextUuid, lastEvent, invoked, manager, isShuttingDown, managersMade,
          pending, licEvent, licInvoked, shutdownCalled>>

chatVars == <<options, conversations, sessions, currentSessionId, activeSessionId,
              waitingForResponse, lsConversations, lsSessionId, calls, now,
              nextUuid, lastEvent, invoked>>

licenseVars == <<manager, isShuttingDown, managersMade, pending, licEvent,
                 licInvoked, shutdownCalled>>

----------------------------------------------------------------------------
(* Bounds of the model *)

MaxNew == 2          \* session ids uuidv4() hands out
MaxMsgs == 4         \* longest message list a sendMessage may produce
MaxClock == 4        \* last value of the clock
MaxInFlight == 2     \* backend calls in flight at once
MaxOps == 3          \* store operations the UI calls in one run
MaxLicenseOps == 4   \* operations of the License service called in one run

(* null / undefined *)
NULL == 0

(* ids of the conversations a previous page load left in localStorage *)
StoredIds == {101, 102}
(* an id the caller gets from elsewhere: in the registry or not *)
ExternalIds == {101}
UserTexts == {"hi"}

----------------------------------------------------------------------------
(* ChatMessage and ConversationMeta *)

Message(sender, text) == [sender |-> sender, text |-> text]

ConversationMeta(id, name, lastUpdated, messageCount) ==
    [id |-> id, name |-> name, lastUpdated |-> lastUpdated,
     messageCount |-> messageCount]

(* finalMessages.filter((m) => m.sender === who).length *)
CountSender(msgs, who) ==
    Cardinality({i \in 1..Len(msgs) : msgs[i].sender = who})

(* the counts taken before the last message was appended *)
MessageStatsBeforeReply(msgs) ==
    [user |-> CountSender(SubSeq(msgs, 1, Len(msgs) - 1), "user"),
     bot |-> CountSender(SubSeq(msgs, 1, Len(msgs) - 1), "bot")]

MessageStats(msgs) ==
    [user |-> CountSender(msgs, "user"), bot |-> CountSender(msgs, "bot")]

(* ticks of the clock in one minute *)
TicksPerMinute == 2

(* new Date().toLocaleString('en-US', {year, month, day, hour, minute}):   *)
(* a text that names the minute of the time, the same for all times of one *)
(* minute                                                                  *)
generateConversationName(t) == <<"name", t \div TicksPerMinute>>

----------------------------------------------------------------------------
(* localStorage items: absent, a text that JSON.parse rejects, or the JSON *)
(* text of a list of conversations.                                        *)

NoItem == [kind |-> "none"]
Corrupt == [kind |-> "corrupt"]
JSONstringify(convs) == [kind |-> "json", val |-> convs]

(* a missing or unparsable item yields a list with one blank conversation *)
getStoredConversationsBlankEntry(item) ==
    IF item.kind = "json" THEN item.val
    ELSE <<ConversationMeta(NULL, generateConversationName(NULL), NULL,
                            [user |-> NULL, bot |-> NULL])>>

getStoredConversations(item) ==
    IF item.kind = "json" THEN item.val ELSE <<>>

updateStoredConversations(convs) == JSONstringify(convs)

----------------------------------------------------------------------------
(* Array helpers *)

(* conversations.value.find((c) => c.id === id): index of the first match, *)
(* 0 when there is none                                                    *)
FindConversation(convs, id) ==
    LET hits == {i \in 1..Len(convs) : convs[i].id = id}
    IN  IF hits = {} THEN 0
        ELSE CHOOSE i \in hits : \A j \in hits : i <= j

(* the entry is left at the end, wherever its time would place it *)
InsertAtEnd(c, s) == Append(s, c)

(* one step of a stable sort by lastUpdated descending: c goes behind the  *)
(* entries of the sorted list s that are at least as recent                *)
InsertByRecency(c, s) ==
    LET k == Cardinality({i \in 1..Len(s) : s[i].lastUpdated >= c.lastUpdated})
    IN  SubSeq(s, 1, k) \o <<c>> \o SubSeq(s, k + 1, Len(s))

RECURSIVE SortConversations(_)
SortConversations(convs) ==
    IF Len(convs) = 0 THEN convs
    ELSE InsertByRecency(convs[Len(convs)],
                         SortConversations(SubSeq(convs, 1, Len(convs) - 1)))

(* sessions.value.set(id, msgs) *)
MapSet(map, id, msgs) ==
    [k \in (DOMAIN map) \cup {id} |-> IF k = id THEN msgs ELSE map[k]]

(* sessions.value.get(id) ?? [] *)
MapGetOrEmpty(map, id) == IF id \in DOMAIN map THEN map[id] ELSE <<>>

----------------------------------------------------------------------------
(* options.initialMessages mapped to bot messages *)
initialMessages ==
    [i \in 1..Len(options.initialMessages) |->
        Message("bot", options.initialMessages[i])]

OptionSet ==
    { [loadPreviousSession |-> TRUE, initialMessages |-> <<"Hi there!">>],
      [loadPreviousSession |-> FALSE, initialMessages |-> <<>>] }

----------------------------------------------------------------------------
(* What the backend can answer *)

Absent == "undefined"

(* api.sendMessage: an object whose output and text fields may be missing  *)
(* and that may carry other keys                                           *)
SendResponses ==
    { [output |-> Absent,  text |-> "hello", other |-> FALSE],
      [output |-> "hello", text |-> "text",  other |-> FALSE],
      [output |-> Absent,  text |-> Absent,  other |-> TRUE] }

(* Object.keys(sendMessageResponse).length *)
ObjectKeys(resp) ==
    (IF resp.output # Absent THEN 1 ELSE 0) + (IF resp.text # Absent THEN 1 ELSE 0)
        + (IF resp.other THEN 1 ELSE 0)

(* JSON.stringify(sendMessageResponse, null, 2) *)
JSONdump(resp) == IF resp.other THEN "{other}" ELSE "{}"

(* sendMessageResponse.output ?? sendMessageResponse.text ?? '', replaced  *)
(* by the JSON text of the response when empty and the response has keys   *)
ReplyText(resp) ==
    LET textMessage == IF resp.output # Absent THEN resp.output
                       ELSE IF resp.text # Absent THEN resp.text
                       ELSE ""
    IN  IF textMessage = "" /\ ObjectKeys(resp) > 0
        THEN JSONdump(resp) ELSE textMessage

(* A JavaScript string is the sequence of its characters. *)
HumanMessage == <<"H", "u", "m", "a", "n", "M", "e", "s", "s", "a", "g", "e">>
AIMessage == <<"A", "I", "M", "e", "s", "s", "a", "g", "e">>
langchain == <<"l", "a", "n", "g", "c", "h", "a", "i", "n">>

(* the id of a history record: a string, or an array of strings (the name  *)
(* parts of the serialised message)                                        *)
StringId(chars) == [type |-> "string", chars |-> chars]
ArrayId(parts) == [type |-> "array", parts |-> parts]

(* id.includes(s): String.prototype.includes finds s anywhere in the       *)
(* string, Array.prototype.includes finds an element equal to s            *)
Includes(id, s) ==
    IF id.type = "string"
    THEN \E i \in 1..(Len(id.chars) - Len(s) + 1) :
            SubSeq(id.chars, i, i + Len(s) - 1) = s
    ELSE \E i \in 1..Len(id.parts) : id.parts[i] = s

(* api.loadPreviousSession: { data?: [{ id, kwargs: { content } }] } *)
Human == [id |-> ArrayId(<<langchain, HumanMessage>>), content |-> "hey"]
Ai == [id |-> ArrayId(<<langchain, AIMessage>>), content |-> "ho"]
HumanStr == [id |-> StringId(HumanMessage \o <<"-", "1">>), content |-> "hey"]
HumanInside ==
    [id |-> StringId(<<"x">> \o HumanMessage \o <<"y">>), content |-> "hey"]
HumanPart ==
    [id |-> ArrayId(<<HumanMessage \o <<"-", "1">> >>), content |-> "ho"]
HistoryResponses ==
    { [hasData |-> FALSE, data |-> <<>>],
      [hasData |-> TRUE, data |-> <<Human, Ai>>],
      [hasData |-> TRUE, data |-> <<HumanStr, Ai>>],
      [hasData |-> TRUE, data |-> <<HumanInside, HumanPart>>] }

(* message.id.includes('HumanMessage') ? 'user' : 'bot' *)
SenderOf(record) ==
    IF Includes(record.id, HumanMessage) THEN "user" ELSE "bot"

(* (previousMessagesResponse?.data || []).map(...) *)
HistoryMessages(resp) ==
    LET data == IF resp.hasData THEN resp.data ELSE <<>>
    IN  [i \in 1..Len(data) |-> Message(SenderOf(data[i]), data[i].content)]

----------------------------------------------------------------------------
(* A suspended operation and the promise it awaits: a backend call         *)
(* ("send", "history"), pending until the backend answers, or, for         *)
(* "resume", the settled promise of switchSession or startNewSession that  *)
(* loadConversation or loadPreviousSession awaits; the operation that      *)
(* awaits the result of switchSession (caller), and the locals it holds    *)

Call(cid, op, sessionId, caller, updatedMessages) ==
    [cid |-> cid, op |-> op, sessionId |-> sessionId, caller |-> caller,
     updatedMessages |-> updatedMessages, outcome |-> "pending", ret |-> NULL]

(* caller awaits a promise that is settled: fulfilled with ret ("returned") *)
(* or rejected ("threw"); its code behind the await is queued               *)
Resume(cid, sessionId, caller, outcome, ret) ==
    [cid |-> cid, op |-> "resume", sessionId |-> sessionId, caller |-> caller,
     updatedMessages |-> <<>>, outcome |-> outcome, ret |-> ret]

FreeCid == CHOOSE n \in 1..(Cardinality(calls) + 1) : \A c \in calls : c.cid # n

(* the backend calls in flight *)
BackendCalls == {c \in calls : c.op \in {"send", "history"}}

Event(op, sid, outcome, ret) ==
    [op |-> op, sid |-> sid, outcome |-> outcome, ret |-> ret]

(* new Date(): the time now, not before the time read last *)
Clock == now..MaxClock

(* the UI calls one more operation *)
Invoke ==
    /\ invoked < MaxOps
    /\ invoked' = invoked + 1

RegistryIds(convs) == {convs[i].id : i \in 1..Len(convs)}

(* the ids a caller can name: those the store or the registry shows, and   *)
(* ids from elsewhere                                                      *)
CallerIds == (DOMAIN sessions) \cup RegistryIds(conversations) \cup ExternalIds

----------------------------------------------------------------------------
(* The License service: a facade in front of the LicenseManager of the     *)
(* license SDK.  One action is one synchronous run of its code; an await   *)
(* leaves an entry in pending: of an SDK promise until the SDK settles it, *)
(* of the promise of init (method "init") until reinit runs on.            *)

(* one run of the service's code: an operation called ("call") or the     *)
(* code behind an await ("settle"), with the SDK calls made and the        *)
(* messages logged in that run                                             *)
LicenseEntry(kind, op, forceRecreate, sdk, outcome, logged) ==
    [kind |-> kind, op |-> op, forceRecreate |-> forceRecreate, sdk |-> sdk,
     outcome |-> outcome, logged |-> logged]

(* an awaited promise *)
Pending(pid, op, method, mgr) ==
    [pid |-> pid, op |-> op, method |-> method, mgr |-> mgr]

FreePid ==
    CHOOSE n \in 1..(Cardinality(pending) + 1) :
        /\ \A p \in pending : p.pid # n
        /\ \A m \in 1..(n - 1) : \E p \in pending : p.pid = m

(* a caller calls one more operation of the service *)
LicenseInvoke ==
    /\ licInvoked < MaxLicenseOps
    /\ licInvoked' = licInvoked + 1

(* private manager: LicenseManager | undefined; private isShuttingDown = false *)
LicenseConstructed ==
    /\ manager = NULL
    /\ isShuttingDown = FALSE
    /\ managersMade = 0
    /\ pending = {}
    /\ licEvent = LicenseEntry("call", "constructor", FALSE, <<>>, "returned", <<>>)
    /\ licInvoked = 0
    /\ shutdownCalled = FALSE

(* init never looks at isShuttingDown *)
ShuttingDownGuardOff == FALSE

(* if (this.isShuttingDown) *)
ShuttingDownGuard == isShuttingDown

(* what new LicenseManager(...) can do: return, throw an Error, throw a    *)
(* value that is no Error                                                  *)
ConstructorOutcomes == {"made", "Error", "value"}

(* catch (error) { if (error instanceof Error) this.logger.error(...) } *)
CatchLogged(isError) ==
    IF isError THEN <<"Could not initialize license manager sdk">> ELSE <<>>

(* init has returned to caller before any await of its own: reinit awaits  *)
(* the returned promise and its last line is queued; init itself is done   *)
InitReturns(caller, forceRecreate, sdk, logged) ==
    IF caller = "reinit"
    THEN /\ pending' = pending \cup {Pending(FreePid, "reinit", "init", manager)}
         /\ licEvent' = LicenseEntry("call", caller, forceRecreate,
                                     sdk, "awaiting", logged)
    ELSE /\ UNCHANGED pending
         /\ licEvent' = LicenseEntry("call", caller, forceRecreate,
                                     sdk, "returned", logged)

(* init(forceRecreate), called by caller after the SDK calls sdkBefore *)
init(forceRecreate, caller, sdkBefore, constructor) ==
    IF manager # NULL /\ ~forceRecreate
    THEN /\ InitReturns(caller, forceRecreate, sdkBefore,
                <<"License manager already initialized or shutting down">>)
         /\ UNCHANGED <<manager, managersMade>>
    ELSE IF ShuttingDownGuard
    THEN /\ InitReturns(caller, forceRecreate, sdkBefore,
                <<"License manager already shutting down">>)
         /\ UNCHANGED <<manager, managersMade>>
    ELSE IF constructor # "made"
    THEN /\ InitReturns(caller, forceRecreate, sdkBefore \o <<"new">>,
                CatchLogged(constructor = "Error"))
         /\ UNCHANGED <<manager, managersMade>>
    ELSE /\ manager' = managersMade + 1
         /\ managersMade' = managersMade + 1
         /\ pending' = pending \cup
                {Pending(FreePid, caller, "initialize", managersMade + 1)}
         /\ licEvent' = LicenseEntry("call", caller, forceRecreate,
                sdkBefore \o <<"new", "initialize">>, "awaiting", <<>>)

InitCall ==
    /\ LicenseInvoke
    /\ \E forceRecreate \in BOOLEAN, constructor \in ConstructorOutcomes :
          init(forceRecreate, "init", <<>>, constructor)
    /\ UNCHANGED isShuttingDown
    /\ UNCHANGED shutdownCalled
    /\ UNCHANGED chatVars

(* if (!this.manager) return; await this.manager.<method>(...) *)
ManagerCall(op, method) ==
    /\ IF manager = NULL
       THEN /\ licEvent' = LicenseEntry("call", op, FALSE, <<>>, "returned", <<>>)
            /\ UNCHANGED pending
       ELSE /\ licEvent' = LicenseEntry("call", op, FALSE, <<method>>, "awaiting", <<>>)
            /\ pending' = pending \cup {Pending(FreePid, op, method, manager)}
    /\ UNCHANGED <<manager, managersMade>>

Activate ==
    /\ LicenseInvoke
    /\ ManagerCall("activate", "activate")
    /\ UNCHANGED isShuttingDown
    /\ UNCHANGED shutdownCalled
    /\ UNCHANGED chatVars

Reload ==
    /\ LicenseInvoke
    /\ ManagerCall("reload", "reload")
    /\ UNCHANGED isShuttingDown
    /\ UNCHANGED shutdownCalled
    /\ UNCHANGED chatVars

Renew ==
    /\ LicenseInvoke
    /\ ManagerCall("renew", "renew")
    /\ UNCHANGED isShuttingDown
    /\ UNCHANGED shutdownCalled
    /\ UNCHANGED chatVars

Shutdown ==
    /\ LicenseInvoke
    /\ isShuttingDown' = TRUE
    /\ shutdownCalled' = TRUE
    /\ ManagerCall("shutdown", "shutdown")
    /\ UNCHANGED chatVars

(* reinit up to await this.init(true): this.manager?.reset(), then init *)
Reinit ==
    /\ LicenseInvoke
    /\ \E resetThrows \in BOOLEAN, constructor \in ConstructorOutcomes :
          IF manager # NULL /\ resetThrows
          THEN /\ licEvent' = LicenseEntry("call", "reinit", TRUE,
                        <<"reset">>, "threw", <<>>)
               /\ UNCHANGED <<manager, managersMade, pending>>
          ELSE /\ manager = NULL => ~resetThrows
               /\ init(TRUE, "reinit",
                       IF manager # NULL THEN <<"reset">> ELSE <<>>, constructor)
    /\ UNCHANGED isShuttingDown
    /\ UNCHANGED shutdownCalled
    /\ UNCHANGED chatVars

(* what the operation logs behind the await of its SDK call *)
LoggedWhenDone(method) ==
    CASE method = "initialize" -> <<"License initialized">>
      [] method = "activate" -> <<"License activated">>
      [] method = "reload" -> <<"License reloaded">>
      [] method = "renew" -> <<"License renewed">>
      [] method = "shutdown" -> <<"License shut down">>

(* an awaited SDK call has settled and the code behind the await has run:  *)
(* reinit goes on to await the promise of init, the others are done or     *)
(* have thrown                                                             *)
Settled(p, outcome, logged) ==
    /\ IF p.op = "reinit" /\ outcome = "returned"
       THEN /\ pending' = (pending \ {p}) \cup
                              {Pending(p.pid, "reinit", "init", p.mgr)}
            /\ licEvent' = LicenseEntry("settle", p.op, FALSE, <<>>,
                                     "awaiting", logged)
       ELSE /\ pending' = pending \ {p}
            /\ licEvent' = LicenseEntry("settle", p.op, FALSE, <<>>,
                                     outcome, logged)
    /\ UNCHANGED <<manager, managersMade, isShuttingDown, licInvoked,
                   shutdownCalled>>
    /\ UNCHANGED chatVars

(* the SDK fulfils an awaited promise: the operation logs and returns *)
SdkResolve(p) ==
    /\ p \in pending /\ p.method # "init"
    /\ Settled(p, "returned", LoggedWhenDone(p.method))

(* the SDK rejects an awaited promise, with an Error or another value:     *)
(* init catches it, the other operations let it through                    *)
SdkReject(p, isError) ==
    /\ p \in pending /\ p.method # "init"
    /\ IF p.method = "initialize"
       THEN Settled(p, "returned", CatchLogged(isError))
       ELSE Settled(p, "threw", <<>>)

(* init(true) has returned: the last line of reinit runs *)
ReinitResume(p) ==
    /\ p \in pending /\ p.method = "init"
    /\ pending' = pending \ {p}
    /\ licEvent' = LicenseEntry("settle", "reinit", TRUE, <<>>,
                                             "returned",
                                             <<"License reinitialized">>)
    /\ UNCHANGED <<manager, managersMade, isShuttingDown, licInvoked,
                   shutdownCalled>>
    /\ UNCHANGED chatVars

----------------------------------------------------------------------------
(* The state after install: a previous page load may have left a registry  *)
(* (sorted, one entry per id, older than the present) and a last session.  *)

Stored1 == ConversationMeta(101, generateConversationName(2), 2, [user |-> 1, bot |-> 1])
Stored2 == ConversationMeta(102, generateConversationName(1), 1, [user |-> 2, bot |-> 2])

(* what a previous page load left under the two keys *)
InitialStorage ==
    { [registry |-> NoItem, lastSession |-> NULL],
      [registry |-> Corrupt, lastSession |-> 101],
      [registry |-> JSONstringify(<<Stored1, Stored2>>), lastSession |-> 102] }

Init ==
    /\ options \in OptionSet
    /\ \E item \in InitialStorage :
          /\ lsConversations = item.registry
          /\ lsSessionId = item.lastSession
    /\ conversations = getStoredConversations(lsConversations)
    /\ sessions = [k \in {} |-> <<>>]
    /\ currentSessionId = NULL
    /\ activeSessionId = NULL
    /\ waitingForResponse = FALSE
    /\ calls = {}
    /\ now = 3
    /\ nextUuid = 1
    /\ lastEvent = Event("install", NULL, "returned", NULL)
    /\ invoked = 0
    /\ LicenseConstructed

----------------------------------------------------------------------------
(* startNewSession *)

uuidv4 == nextUuid

(* startNewSession without the write of the last-session key *)
startNewSessionNoPersist ==
    LET newSessionId == uuidv4
    IN  /\ activeSessionId' = newSessionId
        /\ currentSessionId' = newSessionId
        /\ sessions' = MapSet(sessions, newSessionId, initialMessages)
        /\ UNCHANGED lsSessionId
        /\ nextUuid' = nextUuid + 1

startNewSession ==
    LET newSessionId == uuidv4
    IN  /\ activeSessionId' = newSessionId
        /\ currentSessionId' = newSessionId
        /\ sessions' = MapSet(sessions, newSessionId, initialMessages)
        /\ lsSessionId' = newSessionId
        /\ nextUuid' = nextUuid + 1

StartNewSession ==
    /\ Invoke
    /\ nextUuid <= MaxNew
    /\ startNewSession
    /\ lastEvent' = Event("startNewSession", uuidv4, "returned", NULL)
    /\ UNCHANGED <<options, conversations, waitingForResponse, lsConversations,
                   calls, now>>

----------------------------------------------------------------------------
(* switchSession, up to its await or its return *)

(* only the active pointer is moved *)
SetActiveOnly(sessionId) ==
    /\ activeSessionId' = sessionId
    /\ UNCHANGED currentSessionId

SetPointers(sessionId) ==
    /\ activeSessionId' = sessionId
    /\ currentSessionId' = sessionId

(* the history is requested without storing the empty list first *)
FetchHistoryNoPlaceholder(sessionId, caller) ==
    /\ UNCHANGED sessions
    /\ waitingForResponse' = TRUE
    /\ calls' = calls \cup {Call(FreeCid, "history", sessionId, caller, <<>>)}

(* the branch that has no list for sessionId: an empty list is stored and  *)
(* the history is requested                                                *)
FetchHistory(sessionId, caller) ==
    /\ sessions' = MapSet(sessions, sessionId, <<>>)
    /\ waitingForResponse' = TRUE
    /\ calls' = calls \cup {Call(FreeCid, "history", sessionId, caller, <<>>)}

(* the value switchSession returns without a fetch *)
CachedReturn == NULL

(* the operations that call switchSession behind an await of their own:    *)
(* await switchSession(conversationId), return await switchSession(...)    *)
AwaitingCallers == {"loadConversation", "loadPreviousSession"}

(* switchSession has returned ret: called from the UI the operation is     *)
(* done; loadConversation and loadPreviousSession await the returned       *)
(* promise and their remaining lines are queued (cid names the suspended   *)
(* caller)                                                                 *)
ReturnToCaller(caller, sessionId, ret, cid, others) ==
    IF caller \in AwaitingCallers
    THEN /\ calls' = others \cup {Resume(cid, sessionId, caller, "returned", ret)}
         /\ lastEvent' = Event(caller, sessionId, "awaiting", NULL)
    ELSE /\ calls' = others
         /\ lastEvent' = Event(caller, sessionId, "returned", ret)

(* switchSession has thrown: called from the UI the operation has thrown;  *)
(* in loadConversation and loadPreviousSession the rejection is delivered  *)
(* at their await, in a run of its own                                     *)
ThrowToCaller(caller, sessionId, cid, others) ==
    IF caller \in AwaitingCallers
    THEN /\ calls' = others \cup {Resume(cid, sessionId, caller, "threw", NULL)}
         /\ lastEvent' = Event(caller, sessionId, "awaiting", NULL)
    ELSE /\ calls' = others
         /\ lastEvent' = Event(caller, sessionId, "threw", NULL)

(* switchSession that fetches whether or not the list exists *)
switchSessionAlwaysFetch(sessionId, caller) ==
    /\ SetPointers(sessionId)
    /\ FetchHistory(sessionId, caller)
    /\ lastEvent' = Event(caller, sessionId, "awaiting", NULL)

switchSession(sessionId, caller) ==
    /\ SetPointers(sessionId)
    /\ IF sessionId \notin DOMAIN sessions
       THEN /\ FetchHistory(sessionId, caller)
            /\ lastEvent' = Event(caller, sessionId, "awaiting", NULL)
       ELSE /\ UNCHANGED <<sessions, waitingForResponse>>
            /\ ReturnToCaller(caller, sessionId, CachedReturn, FreeCid, calls)

CanAwait(sessionId) ==
    sessionId \in DOMAIN sessions \/ Cardinality(BackendCalls) < MaxInFlight

SwitchSession(sessionId) ==
    /\ Invoke
    /\ CanAwait(sessionId)
    /\ switchSession(sessionId, "switchSession")
    /\ UNCHANGED <<options, conversations, lsConversations, lsSessionId, now,
                   nextUuid>>

----------------------------------------------------------------------------
(* loadConversation *)

(* conversation.lastUpdated = new Date().toISOString(), when found *)
TouchConversation(convs, conversationId, t) ==
    LET i == FindConversation(convs, conversationId)
    IN  IF i = 0 THEN convs ELSE [convs EXCEPT ![i].lastUpdated = t]

(* the touched summary is kept in memory and not written to storage *)
loadConversationResumeNoPersist(conversationId, t) ==
    IF FindConversation(conversations, conversationId) # 0
    THEN /\ now' = t
         /\ conversations' = TouchConversation(conversations, conversationId, t)
         /\ UNCHANGED lsConversations
    ELSE /\ t = now
         /\ UNCHANGED <<now, conversations, lsConversations>>

(* the lines of loadConversation behind await switchSession(...) *)
loadConversationResume(conversationId, t) ==
    IF FindConversation(conversations, conversationId) # 0
    THEN /\ now' = t
         /\ conversations' = TouchConversation(conversations, conversationId, t)
         /\ lsConversations' = updateStoredConversations(conversations')
    ELSE /\ t = now
         /\ UNCHANGED <<now, conversations, lsConversations>>

(* loadConversation up to await switchSession(conversationId) *)
LoadConversation(conversationId) ==
    /\ Invoke
    /\ CanAwait(conversationId)
    /\ switchSession(conversationId, "loadConversation")
    /\ UNCHANGED <<options, conversations, lsConversations, lsSessionId, now,
                   nextUuid>>

(* the queued rest of loadConversation runs *)
LoadConversationResume(c) ==
    /\ c \in calls /\ c.op = "resume"
    /\ c.caller = "loadConversation" /\ c.outcome = "returned"
    /\ \E t \in Clock : loadConversationResume(c.sessionId, t)
    /\ calls' = calls \ {c}
    /\ lastEvent' = Event("loadConversation", c.sessionId, "returned", NULL)
    /\ UNCHANGED <<options, sessions, currentSessionId, activeSessionId,
                   waitingForResponse, lsSessionId, nextUuid, invoked>>

----------------------------------------------------------------------------
(* the history arrives: switchSession resumes and returns to its caller *)

FetchReply(c, resp) ==
    /\ c \in calls /\ c.op = "history"
    /\ waitingForResponse' = FALSE
    /\ sessions' = MapSet(sessions, c.sessionId, HistoryMessages(resp))
    /\ ReturnToCaller(c.caller, c.sessionId, c.sessionId, c.cid, calls \ {c})
    /\ UNCHANGED <<options, conversations, currentSessionId, activeSessionId,
                   lsConversations, lsSessionId, now, nextUuid, invoked>>

(* the rejection of switchSession arrives at the await of its caller:     *)
(* nothing behind the await runs and the caller throws                     *)
AwaitThrows(c) ==
    /\ c \in calls /\ c.op = "resume" /\ c.outcome = "threw"
    /\ calls' = calls \ {c}
    /\ lastEvent' = Event(c.caller, c.sessionId, "threw", NULL)
    /\ UNCHANGED <<options, conversations, sessions, currentSessionId,
                   activeSessionId, waitingForResponse, lsConversations,
                   lsSessionId, now, nextUuid, invoked>>

(* the history request fails: the await throws, nothing behind it runs and *)
(* switchSession throws to its caller                                      *)
FetchFail(c) ==
    /\ c \in calls /\ c.op = "history"
    /\ ThrowToCaller(c.caller, c.sessionId, c.cid, calls \ {c})
    /\ UNCHANGED <<options, conversations, sessions, currentSessionId,
                   activeSessionId, waitingForResponse, lsConversations,
                   lsSessionId, now, nextUuid, invoked>>

----------------------------------------------------------------------------
(* loadPreviousSession *)

(* the stored id is taken without looking it up in the stored registry *)
HasStoredSessionId(storedConversations, sessionId) == sessionId # NULL

(* if (sessionId) { ... if (existingConversation) *)
HasStoredConversation(storedConversations, sessionId) ==
    /\ sessionId # NULL
    /\ FindConversation(storedConversations, sessionId) # 0

(* loadPreviousSession up to its return (resume not configured) or its    *)
(* await: return await switchSession(sessionId), await startNewSession()   *)
LoadPreviousSession ==
    /\ Invoke
    /\ IF ~options.loadPreviousSession
           THEN /\ lastEvent' = Event("loadPreviousSession", NULL, "returned", NULL)
                /\ UNCHANGED <<options, conversations, sessions, currentSessionId,
                               activeSessionId, waitingForResponse, lsConversations,
                               lsSessionId, calls, now, nextUuid>>
           ELSE LET sessionId == lsSessionId
                    storedConversations == getStoredConversations(lsConversations)
                IN  IF HasStoredConversation(storedConversations, sessionId)
                    THEN /\ CanAwait(sessionId)
                         /\ conversations' = storedConversations
                         /\ switchSession(sessionId, "loadPreviousSession")
                         /\ UNCHANGED <<options, lsConversations, lsSessionId, now,
                                        nextUuid>>
                    ELSE /\ nextUuid <= MaxNew
                         /\ startNewSession
                         /\ calls' = calls \cup
                                {Resume(FreeCid, uuidv4, "loadPreviousSession",
                                        "returned", NULL)}
                         /\ lastEvent' = Event("loadPreviousSession", uuidv4,
                                               "awaiting", NULL)
                         /\ UNCHANGED <<options, conversations, waitingForResponse,
                                        lsConversations, now>>

(* the awaited promise is fulfilled: loadPreviousSession returns what      *)
(* switchSession returned, and undefined behind startNewSession            *)
LoadPreviousSessionResume(c) ==
    /\ c \in calls /\ c.op = "resume"
    /\ c.caller = "loadPreviousSession" /\ c.outcome = "returned"
    /\ calls' = calls \ {c}
    /\ lastEvent' = Event("loadPreviousSession", c.sessionId, "returned", c.ret)
    /\ UNCHANGED <<options, conversations, sessions, currentSessionId,
                   activeSessionId, waitingForResponse, lsConversations,
                   lsSessionId, now, nextUuid, invoked>>

----------------------------------------------------------------------------
(* sendMessage *)

(* sendMessage without the check of the active session *)
SendMessageUnguarded(text) ==
    /\ Invoke
    /\ activeSessionId = NULL
    /\ Cardinality(BackendCalls) < MaxInFlight
    /\ LET updatedMessages == Append(MapGetOrEmpty(sessions, activeSessionId),
                                     Message("user", text))
       IN  /\ sessions' = MapSet(sessions, activeSessionId, updatedMessages)
           /\ waitingForResponse' = TRUE
           /\ calls' = calls \cup {Call(FreeCid, "send", activeSessionId,
                                        "sendMessage", updatedMessages)}
    /\ lastEvent' = Event("sendMessage", activeSessionId, "awaiting", NULL)
    /\ UNCHANGED <<options, conversations, currentSessionId, activeSessionId,
                   lsConversations, lsSessionId, now, nextUuid>>

SendMessageNoSession(text) ==
    /\ Invoke
    /\ activeSessionId = NULL
    /\ lastEvent' = Event("sendMessage", NULL, "returned", NULL)
    /\ UNCHANGED <<options, conversations, sessions, currentSessionId,
                   activeSessionId, waitingForResponse, lsConversations,
                   lsSessionId, calls, now, nextUuid>>

(* up to await api.sendMessage(text, files, activeSessionId.value, options) *)
SendMessage(text) ==
    /\ Invoke
    /\ activeSessionId # NULL
    /\ Cardinality(BackendCalls) < MaxInFlight
    /\ Len(MapGetOrEmpty(sessions, activeSessionId)) + 2 <= MaxMsgs
    /\ LET sessionMessages == MapGetOrEmpty(sessions, activeSessionId)
           updatedMessages == Append(sessionMessages, Message("user", text))
       IN  /\ sessions' = MapSet(sessions, activeSessionId, updatedMessages)
           /\ waitingForResponse' = TRUE
           /\ calls' = calls \cup {Call(FreeCid, "send", activeSessionId,
                                        "sendMessage", updatedMessages)}
    /\ lastEvent' = Event("sendMessage", activeSessionId, "awaiting", NULL)
    /\ UNCHANGED <<options, conversations, currentSessionId, activeSessionId,
                   lsConversations, lsSessionId, now, nextUuid>>

(* the reply is stored under the id the send was started with *)
ReplySessionAtStart(c) == c.sessionId

(* the session the reply is stored under: activeSessionId.value, read when *)
(* the reply has arrived                                                   *)
ReplySession(c) == activeSessionId

(* the conversation is looked up under the id the send was started with *)
RegistrySessionAtStart(c) == c.sessionId

(* the session whose conversation is looked up and pushed: again           *)
(* activeSessionId.value, read when the reply has arrived                  *)
RegistrySession(c) == activeSessionId

(* a new conversation is pushed whether or not one exists *)
UpsertAlwaysPush(convs, id, messageStats, tName, t) ==
    Append(convs, ConversationMeta(id, generateConversationName(tName), t,
                                   messageStats))

(* update the conversation of id at time t, or push a new one whose name   *)
(* is made at time tName and whose lastUpdated is read after it, at t      *)
UpsertConversation(convs, id, messageStats, tName, t) ==
    LET i == FindConversation(convs, id)
    IN  IF i # 0
        THEN [convs EXCEPT ![i].lastUpdated = t, ![i].messageCount = messageStats]
        ELSE Append(convs, ConversationMeta(id, generateConversationName(tName),
                                            t, messageStats))

(* the reply arrives: the part of sendMessage behind the await; the clock  *)
(* is read for a name (tName) only when a conversation is pushed           *)
SendReply(c, resp) ==
    /\ c \in calls /\ c.op = "send"
    /\ \E tName \in Clock : \E t \in tName..MaxClock :
          LET receivedMessage == Message("bot", ReplyText(resp))
              finalMessages == Append(c.updatedMessages, receivedMessage)
              messageStats == MessageStats(finalMessages)
              pushes == /\ messageStats.user > 0 /\ messageStats.bot > 0
                        /\ FindConversation(conversations, RegistrySession(c)) = 0
          IN  /\ pushes \/ tName = t
              /\ now' = t
              /\ sessions' = MapSet(sessions, ReplySession(c), finalMessages)
              /\ IF messageStats.user > 0 /\ messageStats.bot > 0
                 THEN /\ conversations' =
                           SortConversations(UpsertConversation(
                               conversations, RegistrySession(c), messageStats,
                               tName, t))
                      /\ lsConversations' =
                           updateStoredConversations(conversations')
                 ELSE UNCHANGED <<conversations, lsConversations>>
    /\ waitingForResponse' = FALSE
    /\ calls' = calls \ {c}
    /\ lastEvent' = Event("sendMessage", c.sessionId, "returned", NULL)
    /\ UNCHANGED <<options, currentSessionId, activeSessionId, lsSessionId,
                   nextUuid, invoked>>

(* the rejection is answered by taking the user message back *)
SendFailRollback(c) ==
    /\ c \in calls /\ c.op = "send"
    /\ calls' = calls \ {c}
    /\ sessions' = MapSet(sessions, c.sessionId,
                          SubSeq(c.updatedMessages, 1, Len(c.updatedMessages) - 1))
    /\ lastEvent' = Event("sendMessage", c.sessionId, "threw", NULL)
    /\ UNCHANGED <<options, conversations, currentSessionId,
                   activeSessionId, waitingForResponse, lsConversations,
                   lsSessionId, now, nextUuid, invoked>>

(* api.sendMessage rejects: the await throws and nothing behind it runs *)
SendFail(c) ==
    /\ c \in calls /\ c.op = "send"
    /\ calls' = calls \ {c}
    /\ lastEvent' = Event("sendMessage", c.sessionId, "threw", NULL)
    /\ UNCHANGED <<options, conversations, sessions, currentSessionId,
                   activeSessionId, waitingForResponse, lsConversations,
                   lsSessionId, now, nextUuid, invoked>>

----------------------------------------------------------------------------
Next ==
    \/ StartNewSession /\ UNCHANGED licenseVars
    \/ \E id \in CallerIds : SwitchSession(id) /\ UNCHANGED licenseVars
    \/ \E id \in CallerIds : LoadConversation(id) /\ UNCHANGED licenseVars
    \/ LoadPreviousSession /\ UNCHANGED licenseVars
    \/ \E text \in UserTexts : SendMessageNoSession(text) /\ UNCHANGED licenseVars
    \/ \E text \in UserTexts : SendMessage(text) /\ UNCHANGED licenseVars
    \/ \E c \in calls, resp \in SendResponses : SendReply(c, resp) /\ UNCHANGED licenseVars
    \/ \E c \in calls : SendFail(c) /\ UNCHANGED licenseVars
    \/ \E c \in calls, resp \in HistoryResponses : FetchReply(c, resp) /\ UNCHANGED licenseVars
    \/ \E c \in calls : LoadConversationResume(c) /\ UNCHANGED licenseVars
    \/ \E c \in calls : LoadPreviousSessionResume(c) /\ UNCHANGED licenseVars
    \/ \E c \in calls : AwaitThrows(c) /\ UNCHANGED licenseVars
    \/ \E c \in calls : FetchFail(c) /\ UNCHANGED licenseVars

Spec == Init /\ [][Next]_vars

(* Runs in which the UI calls an operation only while no backend call is   *)
(* in flight: every operation runs to its end before the next one starts.  *)
NextSeq ==
    \/ calls = {} /\ StartNewSession /\ UNCHANGED licenseVars
    \/ calls = {} /\ \E id \in CallerIds : SwitchSession(id) /\ UNCHANGED licenseVars
    \/ calls = {} /\ \E id \in CallerIds : LoadConversation(id) /\ UNCHANGED licenseVars
    \/ calls = {} /\ LoadPreviousSession /\ UNCHANGED licenseVars
    \/ calls = {} /\ \E text \in UserTexts : SendMessageNoSession(text) /\ UNCHANGED licenseVars
    \/ calls = {} /\ \E text \in UserTexts : SendMessage(text) /\ UNCHANGED licenseVars
    \/ \E c \in calls, resp \in SendResponses : SendReply(c, resp) /\ UNCHANGED licenseVars
    \/ \E c \in calls : SendFail(c) /\ UNCHANGED licenseVars
    \/ \E c \in calls, resp \in HistoryResponses : FetchReply(c, resp) /\ UNCHANGED licenseVars
    \/ \E c \in calls : LoadConversationResume(c) /\ UNCHANGED licenseVars
    \/ \E c \in calls : LoadPreviousSessionResume(c) /\ UNCHANGED licenseVars
    \/ \E c \in calls : AwaitThrows(c) /\ UNCHANGED licenseVars
    \/ \E c \in calls : FetchFail(c) /\ UNCHANGED licenseVars

SpecSeq == Init /\ [][NextSeq]_vars

(* The License service on its own: the chat store stays as installed. *)
InitLicense ==
    /\ Init
    /\ lsConversations = NoItem
    /\ options = CHOOSE o \in OptionSet : TRUE

NextLicense ==
    \/ InitCall
    \/ Activate
    \/ Reload
    \/ Renew
    \/ Shutdown
    \/ Reinit
    \/ \E p \in pending : SdkResolve(p)
    \/ \E p \in pending, isError \in BOOLEAN : SdkReject(p, isError)
    \/ \E p \in pending : ReinitResume(p)

SpecLicense == InitLicense /\ [][NextLicense]_vars

----------------------------------------------------------------------------
(* Vocabulary of the properties *)

IsSortedByRecency(convs) ==
    \A i \in 1..(Len(convs) - 1) : convs[i].lastUpdated >= convs[i + 1].lastUpdated

HasBothSenders(msgs) ==
    CountSender(msgs, "user") >= 1 /\ CountSender(msgs, "bot") >= 1

IsPrefix(a, b) == Len(a) <= Len(b) /\ SubSeq(b, 1, Len(a)) = a

(* b is a followed by one message of the sender *)
IsAppendOf(a, b, sender) ==
    Len(b) = Len(a) + 1 /\ SubSeq(b, 1, Len(a)) = a /\ b[Len(b)].sender = sender

(* this step is the arrival of the reply of the send call c *)
ReplyArrives(c) ==
    /\ c \in calls /\ c.op = "send"
    /\ c \notin calls'
    /\ lastEvent'.outcome = "returned"

(* this step is the UI calling the operation op *)
Called(op) == invoked' # invoked /\ lastEvent'.op = op

ConfiguredInitialMessages ==
    [i \in 1..Len(options.initialMessages) |->
        [sender |-> "bot", text |-> options.initialMessages[i]]]

----------------------------------------------------------------------------
(* C1: when the active session has changed while a send is in flight, the  *)
(* bot reply is appended to the list of the session the send was started   *)
(* on, and the list of the session active at arrival is left as it is.     *)
C1_ReplyLandsInStartingSession ==
    [][\A c \in calls :
          (ReplyArrives(c) /\ activeSessionId # c.sessionId) =>
              /\ IsAppendOf(sessions[c.sessionId], sessions'[c.sessionId], "bot")
              /\ sessions'[activeSessionId] = sessions[activeSessionId]]_vars

(* C2: the registry is sorted by lastUpdated, most recent first, in every  *)
(* state between two runs of store code.                                   *)
C2_RegistrySorted == IsSortedByRecency(conversations)

(* C3: with no operation in flight every session whose list holds a user   *)
(* and a bot message has a summary, and a summary is added only for a      *)
(* session whose list holds both.                                          *)
C3_SummaryIffBothSenders ==
    /\ [](calls = {} =>
            \A id \in DOMAIN sessions :
                HasBothSenders(sessions[id]) => id \in RegistryIds(conversations))
    /\ [][\A id \in RegistryIds(conversations') \ RegistryIds(conversations) :
              id \in DOMAIN sessions' /\ HasBothSenders(sessions'[id])]_vars

(* C3 as amended: a summary is added only for a session whose list then    *)
(* holds a user and a bot message.                                         *)
C3_SummaryOnlyForBothSenders ==
    [][\A id \in RegistryIds(conversations') \ RegistryIds(conversations) :
          id \in DOMAIN sessions' /\ HasBothSenders(sessions'[id])]_vars

(* a reply has just added the summary of a session that was not in the     *)
(* stored registry                                                         *)
C3_Witness ==
    /\ lastEvent.op = "sendMessage" /\ lastEvent.outcome = "returned"
    /\ activeSessionId \in RegistryIds(conversations) \ StoredIds
    /\ HasBothSenders(sessions[activeSessionId])

(* C4: a session id stays in the map and its list only grows at the end:   *)
(* the list before a step is a prefix of the list after it.                *)
C4_ListsOnlyGrow ==
    [][\A id \in DOMAIN sessions :
          id \in DOMAIN sessions' /\ IsPrefix(sessions[id], sessions'[id])]_vars

(* C5: at most one backend call is in flight for a session id.             *)
C5_OneCallPerSession ==
    \A c1, c2 \in BackendCalls : c1.sessionId = c2.sessionId => c1 = c2

(* C5 as amended: at most one history fetch is in flight for a session id. *)
C5_OneFetchPerSession ==
    \A c1, c2 \in calls :
        (c1.op = "history" /\ c2.op = "history" /\ c1.sessionId = c2.sessionId)
            => c1 = c2

(* switchSession was called again for an id whose history is being fetched *)
C5_Witness ==
    /\ lastEvent = Event("switchSession", lastEvent.sid, "returned", NULL)
    /\ \E c \in calls : c.op = "history" /\ c.sessionId = lastEvent.sid

(* C6: the registry holds at most one summary per session id.              *)
C6_OneSummaryPerSession ==
    \A i, j \in 1..Len(conversations) :
        conversations[i].id = conversations[j].id => i = j

(* the reply of one send has arrived and made the summary of a session     *)
(* while another send for that session is still in flight                  *)
C6_Witness ==
    /\ lastEvent.op = "sendMessage" /\ lastEvent.outcome = "returned"
    /\ lastEvent.sid = activeSessionId
    /\ activeSessionId \in RegistryIds(conversations)
    /\ \E c \in calls : c.op = "send" /\ c.sessionId = activeSessionId

(* C7: activeSessionId equals currentSessionId in every state.             *)
C7_ActiveIsCurrent == activeSessionId = currentSessionId

(* a switch away from a session started before *)
C7_Witness ==
    /\ lastEvent.op = "switchSession"
    /\ activeSessionId = lastEvent.sid
    /\ Cardinality(DOMAIN sessions) >= 2

(* C8: switchSession(id) for an id that has a list returns undefined,      *)
(* starts no backend call and leaves the lists and the registry as they    *)
(* are; it sets both pointers to id.                                       *)
C8_SwitchToLoadedSession ==
    [][(Called("switchSession") /\ lastEvent'.sid \in DOMAIN sessions) =>
          /\ lastEvent'.outcome = "returned"
          /\ lastEvent'.ret = NULL
          /\ calls' = calls
          /\ sessions' = sessions
          /\ conversations' = conversations
          /\ lsConversations' = lsConversations
          /\ activeSessionId' = lastEvent'.sid
          /\ currentSessionId' = lastEvent'.sid]_vars

(* a second switchSession for an id whose history had been fetched *)
C8_Witness ==
    /\ lastEvent = Event("switchSession", lastEvent.sid, "returned", NULL)
    /\ calls = {}
    /\ lastEvent.sid \in DOMAIN sessions
    /\ sessions[lastEvent.sid] # <<>>

(* C9: startNewSession yields an id that was no key of the map; after it   *)
(* the id is active and current, its list is the configured initial bot    *)
(* messages and the persisted last-session id is that id.                  *)
C9_StartNewSession ==
    [][nextUuid' # nextUuid =>
          LET id == lastEvent'.sid
          IN  /\ id # NULL
              /\ id \notin DOMAIN sessions
              /\ activeSessionId' = id
              /\ currentSessionId' = id
              /\ id \in DOMAIN sessions'
              /\ sessions'[id] = ConfiguredInitialMessages
              /\ lsSessionId' = id]_vars

(* a new session, seeded with an initial message, next to an older one *)
C9_Witness ==
    /\ lastEvent.op = "startNewSession"
    /\ Cardinality(DOMAIN sessions) >= 2
    /\ activeSessionId = lastEvent.sid
    /\ Len(sessions[activeSessionId]) >= 1

(* C10: a sendMessage that runs alone appends one user message carrying    *)
(* the text when called and one bot message carrying the reply when the    *)
(* reply arrives; the registry then holds exactly one entry for the        *)
(* session, with the counts of its list.                                   *)
C10_ExchangeAlone ==
    [][/\ (Called("sendMessage") /\ lastEvent'.sid # NULL) =>
            \E text \in UserTexts :
                sessions'[lastEvent'.sid] =
                    Append(sessions[lastEvent'.sid], Message("user", text))
       /\ \A c \in calls :
            ReplyArrives(c) =>
                /\ \E resp \in SendResponses :
                      sessions'[c.sessionId] =
                          Append(sessions[c.sessionId],
                                 Message("bot", ReplyText(resp)))
                /\ Cardinality({i \in 1..Len(conversations') :
                                   conversations'[i].id = c.sessionId}) = 1
                /\ \A i \in 1..Len(conversations') :
                      conversations'[i].id = c.sessionId =>
                          conversations'[i].messageCount =
                              [user |-> CountSender(sessions'[c.sessionId], "user"),
                               bot |-> CountSender(sessions'[c.sessionId], "bot")]
      ]_vars

(* the first exchange on a session started without initial messages *)
C10_Witness ==
    /\ lastEvent.op = "sendMessage" /\ lastEvent.outcome = "returned"
    /\ calls = {}
    /\ lastEvent.sid \in DOMAIN sessions
    /\ sessions[lastEvent.sid] = <<Message("user", "hi"), Message("bot", "hello")>>
    /\ \E i \in 1..Len(conversations) :
          /\ conversations[i].id = lastEvent.sid
          /\ conversations[i].messageCount = [user |-> 1, bot |-> 1]

----------------------------------------------------------------------------
(* the index of the summary of id in the registry, 0 when it has none *)
SummaryIndex(convs, id) == FindConversation(convs, id)

(* the summary of id was made by sendMessage in this process and its       *)
(* lastUpdated still lies in the minute its name was made in               *)
SetBySendMessage(convs, id) ==
    /\ id \notin StoredIds
    /\ SummaryIndex(convs, id) # 0
    /\ convs[SummaryIndex(convs, id)].name =
          generateConversationName(convs[SummaryIndex(convs, id)].lastUpdated)

(* the send c was started on a list that already held a complete exchange  *)
StartedAfterExchange(c) ==
    \E a, b \in 1..Len(c.updatedMessages) :
        /\ a < b
        /\ c.updatedMessages[a].sender = "user"
        /\ c.updatedMessages[b].sender = "bot"

(* C11: the reply of a second sendMessage on a session makes lastUpdated   *)
(* of its summary strictly greater than the first left it, and after every *)
(* completed sendMessage the summary of the session that received the      *)
(* exchange is the first entry of the registry.                            *)
C11_StrictlyLaterAndFirst ==
    [][\A c \in calls :
          ReplyArrives(c) =>
              /\ SummaryIndex(conversations', activeSessionId) = 1
              /\ (StartedAfterExchange(c)
                    /\ SetBySendMessage(conversations, activeSessionId)) =>
                    conversations'[1].lastUpdated >
                        conversations[SummaryIndex(conversations,
                                                   activeSessionId)].lastUpdated
      ]_vars

(* C11 as amended: the reply sets lastUpdated of the summary to the time   *)
(* read then, which is not before the value it had; the summary stands     *)
(* before every entry that is older, so that only entries carrying the     *)
(* same time can precede it.                                               *)
C11_NotEarlierAndBeforeOlder ==
    [][\A c \in calls :
          ReplyArrives(c) =>
              \E i \in 1..Len(conversations') :
                  /\ i = SummaryIndex(conversations', activeSessionId)
                  /\ conversations'[i].lastUpdated = now'
                  /\ \A k \in 1..Len(conversations) :
                        k = SummaryIndex(conversations, activeSessionId) =>
                            conversations'[i].lastUpdated >=
                                conversations[k].lastUpdated
                  /\ \A j \in 1..Len(conversations') :
                        /\ j < i => conversations'[j].lastUpdated =
                                        conversations'[i].lastUpdated
                        /\ j > i => conversations'[j].lastUpdated <=
                                        conversations'[i].lastUpdated
      ]_vars

(* the second exchange on a new session, its summary updated in a later    *)
(* minute than the one its name was made in, with the stored conversations *)
(* behind it                                                               *)
C11_Witness ==
    /\ lastEvent.op = "sendMessage" /\ lastEvent.outcome = "returned"
    /\ calls = {}
    /\ Len(conversations) >= 3
    /\ conversations[1].id = activeSessionId
    /\ activeSessionId \notin StoredIds
    /\ conversations[1].messageCount = [user |-> 2, bot |-> 2]
    /\ conversations[1].name # generateConversationName(conversations[1].lastUpdated)

----------------------------------------------------------------------------
(* the registry as it stands in localStorage *)
PersistedRegistry ==
    IF lsConversations.kind = "json" THEN lsConversations.val ELSE <<>>

(* C12: loadPreviousSession changes nothing and calls no backend when       *)
(* resume is not configured; when the persisted last-session id has a      *)
(* persisted summary it loads the persisted registry and switches to that  *)
(* id; in every other configured case it starts a fresh session.  With     *)
(* resume configured the active session is then set and is a key of the    *)
(* map.                                                                    *)
C12_LoadPreviousSession ==
    [][/\ Called("loadPreviousSession") =>
            IF ~options.loadPreviousSession
            THEN UNCHANGED <<conversations, sessions, currentSessionId,
                             activeSessionId, waitingForResponse,
                             lsConversations, lsSessionId, calls, nextUuid>>
            ELSE IF lsSessionId # NULL
                    /\ lsSessionId \in RegistryIds(PersistedRegistry)
            THEN /\ conversations' = PersistedRegistry
                 /\ activeSessionId' = lsSessionId
                 /\ currentSessionId' = lsSessionId
                 /\ nextUuid' = nextUuid
                 /\ IF lsSessionId \in DOMAIN sessions
                    THEN BackendCalls' = BackendCalls /\ sessions' = sessions
                    ELSE \E c \in calls' \ calls :
                            c.op = "history" /\ c.sessionId = lsSessionId
            ELSE /\ nextUuid' # nextUuid
                 /\ activeSessionId' \notin DOMAIN sessions
                 /\ activeSessionId' = lastEvent'.sid
                 /\ currentSessionId' = lastEvent'.sid
                 /\ BackendCalls' = BackendCalls
                 /\ conversations' = conversations
       /\ (lastEvent'.op = "loadPreviousSession" /\ options.loadPreviousSession) =>
            /\ activeSessionId' # NULL
            /\ activeSessionId' \in DOMAIN sessions'
      ]_vars

(* the previous session was resumed and its history has arrived *)
C12_Witness ==
    /\ lastEvent.op = "loadPreviousSession"
    /\ lastEvent.outcome = "returned"
    /\ lastEvent.sid # NULL
    /\ lastEvent.ret = lastEvent.sid
    /\ lastEvent.sid = lsSessionId
    /\ activeSessionId = lsSessionId
    /\ conversations = PersistedRegistry
    /\ Len(sessions[activeSessionId]) >= 1

----------------------------------------------------------------------------
(* C13: sendMessage with no active session returns at once: no backend     *)
(* call, and the map, the registry, the persisted registry, the waiting    *)
(* flag and both pointers are as before.                                   *)
C13_SendWithoutSession ==
    [][(Called("sendMessage") /\ activeSessionId = NULL) =>
          /\ lastEvent'.outcome = "returned"
          /\ calls' = calls
          /\ sessions' = sessions
          /\ conversations' = conversations
          /\ lsConversations' = lsConversations
          /\ waitingForResponse' = waitingForResponse
          /\ activeSessionId' = activeSessionId
          /\ currentSessionId' = currentSessionId]_vars

(* sendMessage was called before any session was started or selected *)
C13_Witness ==
    /\ lastEvent = Event("sendMessage", NULL, "returned", NULL)
    /\ activeSessionId = NULL
    /\ invoked >= 1

----------------------------------------------------------------------------
(* this step is the rejection of the send call c *)
SendRejected(c) ==
    /\ c \in calls /\ c.op = "send"
    /\ c \notin calls'
    /\ lastEvent'.outcome = "threw"

(* C14: when the backend send fails, sendMessage ends with the error and   *)
(* starts no other call; no list gets a message, the registry and the      *)
(* persisted registry stay as they are, and the user message appended      *)
(* before the call stays in the list.                                      *)
C14_SendFailure ==
    [][\A c \in calls :
          SendRejected(c) =>
              /\ lastEvent' = Event("sendMessage", c.sessionId, "threw", NULL)
              /\ calls' = calls \ {c}
              /\ sessions' = sessions
              /\ conversations' = conversations
              /\ lsConversations' = lsConversations
              /\ sessions[c.sessionId] = c.updatedMessages =>
                    /\ sessions'[c.sessionId] = c.updatedMessages
                    /\ c.updatedMessages[Len(c.updatedMessages)].sender = "user"
      ]_vars

(* a send has failed: its user message is the last of the list *)
C14_Witness ==
    /\ lastEvent.op = "sendMessage" /\ lastEvent.outcome = "threw"
    /\ calls = {}
    /\ Len(sessions[lastEvent.sid]) >= 1
    /\ sessions[lastEvent.sid][Len(sessions[lastEvent.sid])].sender = "user"
    /\ ~HasBothSenders(sessions[lastEvent.sid])

----------------------------------------------------------------------------
(* the registry key is missing or holds a text JSON.parse rejects *)
RegistryUnreadable == lsConversations \in {NoItem, Corrupt}

(* C15: with the registry key missing or unparsable the store is installed *)
(* with an empty registry, and loadPreviousSession goes on with an empty   *)
(* registry (it starts a fresh session, and what it awaits is fulfilled)   *)
(* instead of failing.                                                     *)
C15_LoadNeverFails ==
    /\ [](RegistryUnreadable => conversations = <<>>)
    /\ [][(Called("loadPreviousSession") /\ options.loadPreviousSession
              /\ RegistryUnreadable) =>
              /\ lastEvent'.outcome = "awaiting"
              /\ \E c \in calls' \ calls :
                    /\ c.op = "resume" /\ c.caller = "loadPreviousSession"
                    /\ c.outcome = "returned"
              /\ BackendCalls' = BackendCalls
              /\ conversations' = <<>>
              /\ nextUuid' # nextUuid
              /\ activeSessionId' = lastEvent'.sid
              /\ activeSessionId' \in DOMAIN sessions']_vars

(* loadPreviousSession has run over an unparsable registry and a stale     *)
(* last-session id                                                         *)
C15_Witness ==
    /\ lsConversations = Corrupt
    /\ lastEvent.op = "loadPreviousSession" /\ lastEvent.outcome = "returned"
    /\ options.loadPreviousSession
    /\ conversations = <<>>
    /\ activeSessionId = lastEvent.sid
    /\ activeSessionId # NULL

----------------------------------------------------------------------------
(* the counts of the list of id, as a messageCount *)
ListCounts(id) ==
    [user |-> CountSender(sessions[id], "user"),
     bot |-> CountSender(sessions[id], "bot")]

(* C16: with no operation in flight, every summary that sendMessage made   *)
(* in this process (its id is none of the stored ones) has the counts of   *)
(* the list of its session.                                                *)
C16_CountsMatchLists ==
    calls = {} =>
        \A i \in 1..Len(conversations) :
            (conversations[i].id \notin StoredIds
                /\ conversations[i].id \in DOMAIN sessions) =>
                conversations[i].messageCount = ListCounts(conversations[i].id)

(* C16 as amended: when the reply of a sendMessage is stored, the summary  *)
(* of the session that receives it gets the counts of that session's list  *)
(* as it is then.                                                          *)
C16_CountsMatchAtReply ==
    [][\A c \in calls :
          ReplyArrives(c) =>
              LET i == SummaryIndex(conversations', activeSessionId)
              IN  /\ i # 0
                  /\ conversations'[i].messageCount =
                        [user |-> CountSender(sessions'[activeSessionId], "user"),
                         bot |-> CountSender(sessions'[activeSessionId], "bot")]
      ]_vars

(* a reply has been stored and counted for a session other than the one    *)
(* the send was started on                                                 *)
C16_Witness ==
    /\ lastEvent.op = "sendMessage" /\ lastEvent.outcome = "returned"
    /\ lastEvent.sid # activeSessionId
    /\ SummaryIndex(conversations, activeSessionId) # 0
    /\ conversations[SummaryIndex(conversations, activeSessionId)].messageCount =
          ListCounts(activeSessionId)
    /\ HasBothSenders(sessions[activeSessionId])

----------------------------------------------------------------------------
(* C17: whenever a session is active and no operation is in flight, the    *)
(* last-session id in persistent storage is the id of the active session,  *)
(* whichever of startNewSession, switchSession and loadConversation made   *)
(* it active.                                                              *)
C17_PersistedIdIsActive ==
    (activeSessionId # NULL /\ calls = {}) => lsSessionId = activeSessionId

----------------------------------------------------------------------------
(* C18: waitingForResponse is true exactly in the states in which a        *)
(* backend call, a send or a history fetch, is in flight.                  *)
C18_WaitingIffInFlight ==
    waitingForResponse <=> BackendCalls # {}

----------------------------------------------------------------------------
(* C19: at every operation boundary and suspension point the list read     *)
(* back from the registry key is the in-memory conversations list.         *)
C19_PersistedMirrorsMemory ==
    getStoredConversations(lsConversations) = conversations

(* loadConversation has touched a summary of a non-empty registry and the  *)
(* touched list is the one in storage                                      *)
C19_Witness ==
    /\ lastEvent.op = "loadConversation" /\ lastEvent.outcome = "returned"
    /\ SummaryIndex(conversations, lastEvent.sid) # 0
    /\ conversations[SummaryIndex(conversations, lastEvent.sid)].lastUpdated = now
    /\ lsConversations = JSONstringify(conversations)
    /\ Len(conversations) > 1

----------------------------------------------------------------------------
(* the operations that fetch a history *)
HistoryCallers == {"switchSession", "loadConversation", "loadPreviousSession"}

(* C20 (after a failed fetch): when the history fetch for an id has        *)
(* failed, the map holds no list for the id, and a switchSession to that   *)
(* id requests the history again.                                          *)
C20_RefetchAfterFailedFetch ==
    [][(/\ lastEvent.outcome = "threw"
        /\ lastEvent.op \in HistoryCallers
        /\ Called("switchSession")
        /\ lastEvent'.sid = lastEvent.sid) =>
            /\ lastEvent'.outcome = "awaiting"
            /\ \E c \in calls' \ calls :
                  c.op = "history" /\ c.sessionId = lastEvent.sid]_vars

----------------------------------------------------------------------------
(* vocabulary of the License service *)

(* the run the step makes *)
NewLicenseEntry == licEvent'

(* the step is a caller calling op *)
LicenseCalled(op) ==
    /\ licInvoked' # licInvoked
    /\ licEvent'.kind = "call"
    /\ licEvent'.op = op

(* the step is some run of the service's code *)
LicenseStep == licInvoked' # licInvoked \/ pending' # pending

(* the step constructs a LicenseManager, or tries to *)
ConstructsManager ==
    \/ managersMade' # managersMade
    \/ \E i \in 1..Len(licEvent'.sdk) : licEvent'.sdk[i] = "new"

(* shutdown() has been called *)
ShutdownCalled == shutdownCalled

(* C21: init() without forceRecreate leaves an existing manager in place;  *)
(* once shutdown() has been called no run of the service constructs a      *)
(* LicenseManager, whether through init(), init(true) or reinit(); with    *)
(* no manager, activate, reload, renew and shutdown call nothing of the    *)
(* SDK and return.                                                         *)
C21_LicenseLifecycle ==
    [][/\ (LicenseCalled("init") /\ manager # NULL
              /\ ~NewLicenseEntry.forceRecreate) =>
              /\ manager' = manager
              /\ ~ConstructsManager
       /\ (LicenseStep /\ ShutdownCalled) =>
              /\ manager' = manager
              /\ ~ConstructsManager
       /\ \A op \in {"activate", "reload", "renew", "shutdown"} :
              (LicenseCalled(op) /\ manager = NULL) =>
                  /\ NewLicenseEntry.sdk = <<>>
                  /\ NewLicenseEntry.outcome = "returned"
                  /\ pending' = pending
                  /\ manager' = NULL
      ]_vars

(* a manager was made, shutdown() was called, and a later init(true) has   *)
(* returned without making another                                         *)
C21_Witness ==
    /\ manager # NULL
    /\ managersMade = 1
    /\ shutdownCalled
    /\ licEvent.kind = "call" /\ licEvent.op = "init"
    /\ licEvent.forceRecreate
    /\ licEvent.sdk = <<>>
    /\ licEvent.outcome = "returned"

====
